---- MODULE Spec2Model ----
(***************************************************************************)
(* Proton: three request/response channels (Event, StateCommit, Action)    *)
(* multiplexed over one QUIC connection, with a single-connection server.  *)
(*                                                                         *)
(* The model follows src/src/proton/server.rs (ProtonServer::run,          *)
(* handle_connection, ProtonStreamHandler::handle_stream and               *)
(* handle_all_streams), src/src/proton/client.rs (ProtonClient,            *)
(* ProtonConnection) and the constants and error conversions of            *)
(* src/src/proton/mod.rs.  The QUIC transport (quinn) is the environment:  *)
(* connection attempts, byte streams, stream resets, connection loss and   *)
(* expiring deadlines are nondeterministic.                                *)
(*                                                                         *)
(* Every handler action is one maximal block of code between two await     *)
(* points.                                                                 *)
(***************************************************************************)
EXTENDS Integers, Sequences, FiniteSets, TLC

(***************************************************************************)
(* Bounds of the model.                                                    *)
(***************************************************************************)
\* connection attempts made against the server
MaxConns == 2
\* requests a peer makes on one connection
MaxWords == 2
\* values of one byte are 0 .. ByteBase-1 (256 in the program)
ByteBase == 16

(***************************************************************************)
(* Program constants, src/src/proton/mod.rs.                               *)
(***************************************************************************)
STREAM_EVENT == 1
STREAM_STATE_COMMIT == 2
STREAM_ACTION == 3
MAX_BIDIRECTIONAL_STREAMS == 3
MAX_CONNECTIONS_Two == 1 + 1
MAX_CONNECTIONS == 1
\* server.rs:328, `while streams_established < 3`
STREAMS_REQUIRED == 3
\* client.rs:93, the fixed probe of read_action
ACTION_PROBE == 42

\* u32: four bytes
U32_BYTES == 4
U32_MOD == ByteBase * ByteBase * ByteBase * ByteBase
U32_MAX == U32_MOD - 1

Conns == 1..MaxConns
Streams == 1..MAX_BIDIRECTIONAL_STREAMS
Bytes == 0..(ByteBase - 1)

\* Option::None for a stream binding, and "no close code issued"
NoStream == 0
NoCode == 0 - 1
\* handle_stream has not read a discriminator yet
NoByte == 0 - 1

\* the discriminator bytes a peer writes: the three roles, 0x00 and 0x09
DiscBytes == {0, STREAM_EVENT, STREAM_STATE_COMMIT, STREAM_ACTION, 9}
\* the orders in which a raw peer names the three roles when it names each once
RoleOrders == {<<STREAM_EVENT, STREAM_STATE_COMMIT, STREAM_ACTION>>,
               <<STREAM_ACTION, STREAM_EVENT, STREAM_STATE_COMMIT>>}
\* the request words a raw peer writes on a stream it opened with discriminator d
EventWords == {0, 1, 7}
CommitWords == {7, U32_MAX - 2, U32_MAX - 1}
ActionWords == {7, ACTION_PROBE}
\* the commit ids the caller of ProtonConnection::send_state_commit passes
ClientCommitWords == {7}
WordsFor(d) ==
    CASE d = STREAM_EVENT -> EventWords
      [] d = STREAM_STATE_COMMIT -> CommitWords
      [] d = STREAM_ACTION -> ActionWords
      [] OTHER -> {}

(***************************************************************************)
(* WireCodec: u32::to_le_bytes and u32::from_le_bytes.                     *)
(***************************************************************************)
RECURSIVE Pow(_, _)
Pow(b, n) == IF n = 0 THEN 1 ELSE b * Pow(b, n - 1)

to_le_bytes(v) == [i \in 1..U32_BYTES |-> (v \div Pow(ByteBase, i - 1)) % ByteBase]

RECURSIVE from_le_sum(_, _)
from_le_sum(data, i) ==
    IF i > Len(data) THEN 0
    ELSE data[i] * Pow(ByteBase, i - 1) + from_le_sum(data, i + 1)

from_le_bytes(data) == from_le_sum(data, 1)

\* the first n bytes of a stream buffer, and what is left after them
Take(buf, n) == SubSeq(buf, 1, n)
Drop(buf, n) == SubSeq(buf, n + 1, Len(buf))

(***************************************************************************)
(* ProtonError (mod.rs:21-26) and the conversions into it (mod.rs:48-82).  *)
(***************************************************************************)
Ok == "Ok"
ConnectionError == "ConnectionError"
InvalidStream == "InvalidStream"
Timeout == "Timeout"
\* the handler task ended by a panic (the JoinError of server.rs:292)
Panicked == "Panicked"

FromConnectionError == ConnectionError
FromWriteError == ConnectionError
FromReadExactError == ConnectionError
FromElapsed == ConnectionError

VARIABLES
    \* ---- transport (quinn), per connection attempt
    conn,       \* "new", "refused", "incoming", "open", "closed", "drained"
    kind,       \* who is at the other end: "none", "raw" (any QUIC peer), "client" (ProtonClient)
    nstreams,   \* bidirectional streams the peer has opened
    c2s,        \* per stream: bytes written by the peer, not yet read by the server
    s2c,        \* per stream: bytes written by the server, not yet read by the peer
    sstate,     \* per stream: "unopened", "silent" (opened, never written), or the
                \* discriminator byte the peer wrote when it opened the stream
    words,      \* requests the peer has made on the connection
    \* ---- ProtonServer
    run_pc,             \* ProtonServer::run: "accept", "await", "cleanup"
    run_task,           \* the connection whose handler task run() is awaiting
    active_connection,  \* Arc<Mutex<Option<ProtonStreamHandler>>>: "None" or "Some"
    lock,               \* the handler holding the MutexGuard, 0 when the mutex is free
    h,                  \* per connection: handle_connection's locals and its ProtonStreamHandler
    out,                \* per connection: what the handler returned and the close it issued
    \* ---- ProtonClient
    cl

transport == <<conn, kind, nstreams, c2s, s2c, sstate, words>>
server == <<run_pc, run_task, active_connection, lock, h, out>>
vars == <<conn, kind, nstreams, c2s, s2c, sstate, words,
          run_pc, run_task, active_connection, lock, h, out, cl>>

(***************************************************************************)
(* ProtonStreamHandler::new (server.rs:24-31) with the locals of           *)
(* handle_connection (server.rs:324-325) and of handle_all_streams.        *)
(***************************************************************************)
NewHandler_Stale(pc) ==
    [ pc |-> pc,
      streams_established |-> 0,
      cur |-> NoStream,
      discriminator |-> NoByte,
      event_stream |-> NoStream,
      state_commit_stream |-> NoStream,
      action_stream |-> NoStream,
      last_event_id |-> 7,
      counter |-> 1,
      ev_pc |-> "read", event_id |-> 0,
      sc_pc |-> "read", commit_id |-> 0, response |-> 0,
      ac_pc |-> "read", action |-> 0,
      stream_result |-> "None" ]

NewHandler(pc) ==
    [ pc |-> pc,
      streams_established |-> 0,
      cur |-> NoStream,
      discriminator |-> NoByte,
      event_stream |-> NoStream,
      state_commit_stream |-> NoStream,
      action_stream |-> NoStream,
      last_event_id |-> 0,
      counter |-> 0,
      ev_pc |-> "read", event_id |-> 0,
      sc_pc |-> "read", commit_id |-> 0, response |-> 0,
      ac_pc |-> "read", action |-> 0,
      stream_result |-> "None" ]

NoOutcome ==
    [ result |-> "None", close_code |-> NoCode, close_reason |-> "None",
      loops_started |-> FALSE ]

NoBuffers == [s \in Streams |-> <<>>]

\* the connections that count against concurrent_connections (server.rs:258)
Counted == {c \in Conns : conn[c] \in {"incoming", "open", "closed"}}

\* a handler between being spawned and returning
Running(c) == h[c].pc \notin {"idle", "returned", "panicked", "joined"}
\* a handler in its stream handshake or its channel loops
InPhase(c) == h[c].pc \in {"accept_bi", "handle_stream", "loops", "clear"}

\* a connection that is being served: established, its handler in the stream
\* handshake or in the channel loops
Active(c) == conn[c] = "open" /\ InPhase(c)

(***************************************************************************)
(* The initial state: ProtonServer::new (server.rs:263-266) has made the   *)
(* slot empty, ProtonClient::new (client.rs:131-134) the counter 0.        *)
(***************************************************************************)
NewClient ==
    [ last_event_id |-> 0,  \* ProtonClient::last_event_id
      conn |-> 0,           \* the connection of the ProtonConnection held, 0 for none
      pc |-> "idle",        \* the call in progress
      arg |-> 0,            \* the id the call in progress sent
      ret |-> "None" ]      \* what the last call returned: Ok or the ProtonError

Init ==
    /\ conn = [c \in Conns |-> "new"]
    /\ kind = [c \in Conns |-> "none"]
    /\ nstreams = [c \in Conns |-> 0]
    /\ c2s = [c \in Conns |-> NoBuffers]
    /\ s2c = [c \in Conns |-> NoBuffers]
    /\ sstate = [c \in Conns |-> [s \in Streams |-> "unopened"]]
    /\ words = [c \in Conns |-> 0]
    /\ run_pc = "accept"
    /\ run_task = 0
    /\ active_connection = "None"
    /\ lock = 0
    /\ h = [c \in Conns |-> NewHandler("idle")]
    /\ out = [c \in Conns |-> NoOutcome]
    /\ cl = NewClient

(***************************************************************************)
(* The transport.  concurrent_connections(MAX_CONNECTIONS), server.rs:258: *)
(* the endpoint refuses an attempt while MAX_CONNECTIONS connections are   *)
(* in its table; a connection leaves the table when it has drained.        *)
(***************************************************************************)
Admit == IF Cardinality(Counted) < MAX_CONNECTIONS THEN "incoming" ELSE "refused"

\* connection attempts are numbered in the order they are made
NextAttempt(c) == conn[c] = "new" /\ \A d \in Conns : d < c => conn[d] # "new"

Attempt(c, k) ==
    /\ conn' = [conn EXCEPT ![c] = Admit]
    /\ kind' = [kind EXCEPT ![c] = IF Admit = "refused" THEN "none" ELSE k]

\* a closed connection has no streams any more: what was buffered is discarded
Discard(c, w) ==
    /\ kind' = [kind EXCEPT ![c] = "none"]
    /\ nstreams' = [nstreams EXCEPT ![c] = 0]
    /\ c2s' = [c2s EXCEPT ![c] = NoBuffers]
    /\ s2c' = [s2c EXCEPT ![c] = NoBuffers]
    /\ sstate' = [sstate EXCEPT ![c] = [s \in Streams |-> "unopened"]]
    /\ words' = [words EXCEPT ![c] = w]

\* Connection::close, and the implicit close when the last handle is dropped
Close(c) ==
    /\ conn' = [conn EXCEPT ![c] = IF @ = "open" THEN "closed" ELSE @]
    /\ Discard(c, IF cl.conn = c THEN words[c] ELSE 0)

\* a QUIC peer other than ProtonClient attempts a connection: while the
\* ProtonClient's connection is alive, or when the ProtonClient holds none
RawConnect(c) ==
    /\ NextAttempt(c)
    /\ IF cl.conn = 0 THEN TRUE ELSE conn[cl.conn] \in {"incoming", "open"}
    /\ Attempt(c, "raw")
    /\ UNCHANGED <<nstreams, c2s, s2c, sstate, words, server, cl>>

\* the peer opens its next stream and writes one discriminator byte on it, or
\* opens it and leaves it silent.  The server sees streams one at a time, in the
\* order they were opened, so the next one is opened when the last was accepted.
\* The byte is any of DiscBytes: not a role, a role named before, or the next
\* role of one of the RoleOrders
RawOpen(c) ==
    /\ kind[c] = "raw" /\ conn[c] = "open"
    /\ nstreams[c] < MAX_BIDIRECTIONAL_STREAMS
    /\ nstreams[c] = h[c].streams_established
    /\ LET s == nstreams[c] + 1 IN
       /\ nstreams' = [nstreams EXCEPT ![c] = s]
       /\ \/ \E b \in DiscBytes :
                /\ \/ b \notin {STREAM_EVENT, STREAM_STATE_COMMIT, STREAM_ACTION}
                   \/ \E r \in 1..(s - 1) : sstate[c][r] = b
                   \/ \E o \in RoleOrders :
                         o[s] = b /\ \A r \in 1..(s - 1) : sstate[c][r] = o[r]
                /\ c2s' = [c2s EXCEPT ![c][s] = <<b>>]
                /\ sstate' = [sstate EXCEPT ![c][s] = b]
          \/ /\ sstate' = [sstate EXCEPT ![c][s] = "silent"]
             /\ UNCHANGED c2s
    /\ UNCHANGED <<conn, kind, s2c, words, server, cl>>

\* the peer writes one 4-byte word on a stream whose earlier words have been
\* read.  Bytes written during the stream handshake stay buffered until the
\* channel loops read them, so the writes are taken when the loops run
RawWrite(c) ==
    /\ kind[c] = "raw" /\ conn[c] = "open"
    /\ h[c].pc = "loops"
    /\ words[c] < MaxWords
    /\ \E s \in Streams : \E v \in WordsFor(sstate[c][s]) :
          /\ c2s[c][s] = <<>>
          /\ c2s' = [c2s EXCEPT ![c][s] = @ \o to_le_bytes(v)]
    /\ words' = [words EXCEPT ![c] = @ + 1]
    /\ UNCHANGED <<conn, kind, nstreams, s2c, sstate, server, cl>>

\* the peer closes the connection, or the connection is lost
RawClose(c) ==
    /\ kind[c] = "raw" /\ conn[c] = "open"
    /\ Close(c)
    /\ UNCHANGED <<server, cl>>

\* a closed connection has drained and leaves the endpoint's table
Drain(c) ==
    /\ conn[c] = "closed"
    /\ conn' = [conn EXCEPT ![c] = "drained"]
    /\ UNCHANGED <<kind, nstreams, c2s, s2c, sstate, words, server, cl>>


(***************************************************************************)
(* What an awaited stream operation can do.  A read completes when the     *)
(* bytes are there, fails when the connection is gone or the peer resets   *)
(* the stream, and its deadline expires when the bytes do not come.  A     *)
(* write fails in the same cases; its deadline expires when the peer       *)
(* withholds flow-control credit.  ProtonClient neither resets a stream    *)
(* nor withholds credit; any other peer may, at any moment.                *)
(***************************************************************************)
Readable(c, s, n) == conn[c] = "open" /\ Len(c2s[c][s]) >= n
ReadFails(c, s) == conn[c] # "open" \/ kind[c] = "raw"
ReadExpires(c, s, n) == conn[c] = "open" /\ Len(c2s[c][s]) < n
Writable(c, s) == conn[c] = "open"
WriteFails(c, s) == conn[c] # "open" \/ kind[c] = "raw"
WriteExpires(c, s) == conn[c] = "open" /\ kind[c] = "raw"

\* `a + b` on u32 overflows: a build with overflow checks (debug) panics there, a
\* build without them (release) wraps; both outcomes are behaviours of the model
Overflows(a, b) == a + b > U32_MAX

(***************************************************************************)
(* ProtonServer::run, server.rs:279-299.                                   *)
(***************************************************************************)
\* endpoint.accept() yields the oldest waiting connection; its handler is spawned
\* and run() goes on to await the JoinHandle
RunAccept_NoJoin(c) ==
    /\ run_pc = "accept"
    /\ conn[c] = "incoming" /\ h[c].pc = "idle"
    /\ \A d \in Conns : d < c => ~(conn[d] = "incoming" /\ h[d].pc = "idle")
    /\ h' = [h EXCEPT ![c].pc = "connecting"]
    /\ run_pc' = "cleanup"
    /\ run_task' = c
    /\ UNCHANGED <<transport, active_connection, lock, out, cl>>

RunAccept(c) ==
    /\ run_pc = "accept"
    /\ conn[c] = "incoming" /\ h[c].pc = "idle"
    /\ \A d \in Conns : d < c => ~(conn[d] = "incoming" /\ h[d].pc = "idle")
    /\ h' = [h EXCEPT ![c].pc = "connecting"]
    /\ run_pc' = "await"
    /\ run_task' = c
    /\ UNCHANGED <<transport, active_connection, lock, out, cl>>

\* connection_handle.await completes, with Ok or with a JoinError; the task and
\* everything it owned is gone
RunJoin_OkOnly ==
    /\ run_pc = "await"
    /\ h[run_task].pc = "returned"
    /\ h' = [h EXCEPT ![run_task] = NewHandler("joined")]
    /\ out' = [out EXCEPT ![run_task] = NoOutcome]
    /\ run_pc' = "cleanup"
    /\ UNCHANGED <<transport, run_task, active_connection, lock, cl>>

RunJoin ==
    /\ run_pc = "await"
    /\ h[run_task].pc \in {"returned", "panicked"}
    /\ h' = [h EXCEPT ![run_task] = NewHandler("joined")]
    /\ out' = [out EXCEPT ![run_task] = NoOutcome]
    /\ run_pc' = "cleanup"
    /\ UNCHANGED <<transport, run_task, active_connection, lock, cl>>

\* *self.active_connection.lock().await = None
RunCleanup_Refill ==
    /\ run_pc = "cleanup"
    /\ lock = 0
    /\ active_connection' = "Some"
    /\ run_pc' = "accept"
    /\ run_task' = 0
    /\ UNCHANGED <<transport, lock, h, out, cl>>

RunCleanup ==
    /\ run_pc = "cleanup"
    /\ lock = 0
    /\ active_connection' = "None"
    /\ run_pc' = "accept"
    /\ run_task' = 0
    /\ UNCHANGED <<transport, lock, h, out, cl>>

(***************************************************************************)
(* ProtonStreamHandler::handle_stream, server.rs:41-67: the match on the   *)
(* discriminator.  Each arm gives the Result and the handler after it.     *)
(***************************************************************************)
bind_event_Overwrite(hr, s) == [res |-> Ok, h |-> [hr EXCEPT !.event_stream = s]]

bind_event(hr, s) ==
    IF hr.event_stream = NoStream
    THEN [res |-> Ok, h |-> [hr EXCEPT !.event_stream = s]]
    ELSE [res |-> InvalidStream, h |-> hr]

bind_state_commit_Overwrite(hr, s) ==
    [res |-> Ok, h |-> [hr EXCEPT !.state_commit_stream = s]]

bind_state_commit(hr, s) ==
    IF hr.state_commit_stream = NoStream
    THEN [res |-> Ok, h |-> [hr EXCEPT !.state_commit_stream = s]]
    ELSE [res |-> InvalidStream, h |-> hr]

bind_action(hr, s) ==
    IF hr.action_stream = NoStream
    THEN [res |-> Ok, h |-> [hr EXCEPT !.action_stream = s]]
    ELSE [res |-> InvalidStream, h |-> hr]

bind_unknown_Accept(hr, s) == [res |-> Ok, h |-> hr]

bind_unknown(hr, s) == [res |-> InvalidStream, h |-> hr]

handle_stream(hr, s, discriminator) ==
    CASE discriminator = STREAM_EVENT -> bind_event(hr, s)
      [] discriminator = STREAM_STATE_COMMIT -> bind_state_commit(hr, s)
      [] discriminator = STREAM_ACTION -> bind_action(hr, s)
      [] OTHER -> bind_unknown(hr, s)

(***************************************************************************)
(* ProtonServer::handle_connection, server.rs:304-387.                     *)
(***************************************************************************)
\* `return Err(e)` / `Ok(())`: the function returns, which drops the guard if held
Return(c, e, code, reason) ==
    /\ out' = [out EXCEPT ![c].result = e, ![c].close_code = code,
                          ![c].close_reason = reason]
    /\ Close(c)

\* the three failure arms of the handshake loop, server.rs:331-351:
\* *conn_guard = None; connection.close(code, reason); return Err(e)
HandshakeFails(c, e, code, reason) ==
    /\ active_connection' = "None"
    /\ Return(c, e, code, reason)
    /\ lock' = 0
    /\ h' = [h EXCEPT ![c].pc = "returned"]
    /\ UNCHANGED <<run_pc, run_task, cl>>

\* server.rs:308, `let connection = connecting.await?`
HandlerConnecting(c) ==
    /\ h[c].pc = "connecting"
    /\ \/ /\ conn' = [conn EXCEPT ![c] = "open"]
          /\ h' = [h EXCEPT ![c].pc = "lock"]
          /\ UNCHANGED out
          /\ UNCHANGED kind
       \/ /\ conn' = [conn EXCEPT ![c] = "drained"]
          /\ kind' = [kind EXCEPT ![c] = "none"]
          /\ h' = [h EXCEPT ![c].pc = "returned"]
          /\ out' = [out EXCEPT ![c].result = FromConnectionError]
    /\ UNCHANGED <<nstreams, c2s, s2c, sstate, words, run_pc, run_task,
                   active_connection, lock, cl>>

\* server.rs:315-325: the guard is taken; an occupied slot rejects the connection,
\* a free one starts the handshake with a new ProtonStreamHandler
HandlerLock(c) ==
    /\ h[c].pc = "lock"
    /\ lock = 0
    /\ IF active_connection # "None"
       THEN /\ Return(c, ConnectionError, 0, "Another client is already connected")
            /\ h' = [h EXCEPT ![c].pc = "returned"]
            /\ UNCHANGED lock
       ELSE /\ lock' = c
            /\ h' = [h EXCEPT ![c] = NewHandler("accept_bi")]
            /\ UNCHANGED <<transport, out>>
    /\ UNCHANGED <<run_pc, run_task, active_connection, cl>>

\* the error handle_connection returns when waiting for the next stream expires,
\* server.rs:346-350
accept_bi_elapsed == ConnectionError

\* server.rs:329, timeout(5 s, connection.accept_bi()).await
AcceptBi(c) ==
    /\ h[c].pc = "accept_bi"
    /\ \/ /\ conn[c] = "open"
          /\ nstreams[c] > h[c].streams_established
          /\ h' = [h EXCEPT ![c].pc = "handle_stream",
                            ![c].cur = h[c].streams_established + 1,
                            ![c].discriminator = NoByte]
          /\ UNCHANGED <<transport, run_pc, run_task, active_connection, lock,
                         out, cl>>
       \/ /\ conn[c] # "open"
          /\ HandshakeFails(c, ConnectionError, 2, "Stream accept error")
       \/ /\ conn[c] = "open"
          /\ nstreams[c] = h[c].streams_established
          /\ HandshakeFails(c, accept_bi_elapsed, 3, "Stream setup timeout")

\* server.rs:355-359 after the third stream: the handler is stored in the slot and
\* taken out again, and the guard is dropped
StoreAndTake_NoTake(c, hr) ==
    /\ active_connection' = "Some"
    /\ lock' = 0
    /\ h' = [h EXCEPT ![c] = [hr EXCEPT !.pc = "loops", !.cur = NoStream]]
    /\ out' = [out EXCEPT ![c].loops_started = TRUE]

StoreAndTake(c, hr) ==
    /\ active_connection' = "None"
    /\ lock' = 0
    /\ h' = [h EXCEPT ![c] = [hr EXCEPT !.pc = "loops", !.cur = NoStream]]
    /\ out' = [out EXCEPT ![c].loops_started = TRUE]

\* server.rs:331-338 with handle_stream's read of the discriminator, server.rs:38-39
HandleStream(c) ==
    /\ h[c].pc = "handle_stream"
    /\ LET s == h[c].cur IN
       \/ /\ Readable(c, s, 1)
          /\ LET discriminator == Head(c2s[c][s])
                 r == handle_stream([h[c] EXCEPT !.discriminator = discriminator],
                                    s, discriminator) IN
             IF r.res = Ok
             THEN /\ c2s' = [c2s EXCEPT ![c][s] = Tail(@)]
                  /\ LET hr == [r.h EXCEPT !.streams_established = @ + 1] IN
                     IF hr.streams_established < STREAMS_REQUIRED
                     THEN /\ h' = [h EXCEPT ![c] = [hr EXCEPT !.pc = "accept_bi",
                                                              !.cur = NoStream]]
                          /\ UNCHANGED <<active_connection, lock, out>>
                     ELSE StoreAndTake(c, hr)
                  /\ UNCHANGED <<conn, kind, nstreams, s2c, sstate, words, run_pc,
                                 run_task, cl>>
             ELSE /\ active_connection' = "None"
                  /\ Return(c, r.res, 1, "Stream setup error")
                  /\ lock' = 0
                  /\ h' = [h EXCEPT ![c] = [r.h EXCEPT !.pc = "returned"]]
                  /\ UNCHANGED <<run_pc, run_task, cl>>
       \/ /\ ReadFails(c, s)
          /\ HandshakeFails(c, FromReadExactError, 1, "Stream setup error")
       \/ /\ ReadExpires(c, s, 1)
          /\ HandshakeFails(c, FromElapsed, 1, "Stream setup error")

(***************************************************************************)
(* ProtonStreamHandler::handle_all_streams, server.rs:70-226.  The three   *)
(* loops and connection.closed() are raced by tokio::select!; the first    *)
(* branch to complete gives the result and the other futures are dropped.  *)
(***************************************************************************)
\* a branch of the select! completes with r
Select_KeepsLooping(c, r) == h' = [h EXCEPT ![c].stream_result = r]

Select(c, r) == h' = [h EXCEPT ![c].stream_result = r, ![c].pc = "clear"]

\* the task panics: its locals, the connection among them, are dropped
Panic(c) ==
    /\ h' = [h EXCEPT ![c].pc = "panicked"]
    /\ out' = [out EXCEPT ![c].result = Panicked]
    /\ Close(c)

\* server.rs:89, the monotonicity test
rejects_event_NotStrict(event_id, last_event_id) == event_id < last_event_id

rejects_event(event_id, last_event_id) == event_id <= last_event_id

\* server.rs:84-92 and 111-118: read an event id and check it
EventRead(c) ==
    /\ h[c].pc = "loops" /\ h[c].event_stream # NoStream /\ h[c].ev_pc = "read"
    /\ LET s == h[c].event_stream IN
       \/ /\ Readable(c, s, U32_BYTES)
          /\ LET event_id == from_le_bytes(Take(c2s[c][s], U32_BYTES)) IN
             IF rejects_event(event_id, h[c].last_event_id)
             THEN Select(c, InvalidStream)
             ELSE h' = [h EXCEPT ![c].last_event_id = event_id,
                                 ![c].event_id = event_id,
                                 ![c].ev_pc = "write"]
          /\ c2s' = [c2s EXCEPT ![c][s] = Drop(@, U32_BYTES)]
       \/ /\ ReadFails(c, s)
          /\ Select(c, ConnectionError)
          /\ UNCHANGED c2s
       \/ /\ ReadExpires(c, s, U32_BYTES)
          /\ Select(c, Timeout)
          /\ UNCHANGED c2s
    /\ UNCHANGED <<conn, kind, nstreams, s2c, sstate, words, run_pc, run_task,
                   active_connection, lock, out, cl>>

\* the acknowledgment written for an accepted event, server.rs:95
event_ack_PlusCounter(hr) == to_le_bytes(hr.event_id + hr.counter)

event_ack(hr) == to_le_bytes(hr.event_id)

\* server.rs:95-109: send the acknowledgment
EventWrite(c) ==
    /\ h[c].pc = "loops" /\ h[c].event_stream # NoStream /\ h[c].ev_pc = "write"
    /\ LET s == h[c].event_stream IN
       \/ /\ Writable(c, s)
          /\ s2c' = [s2c EXCEPT ![c][s] = @ \o event_ack(h[c])]
          /\ h' = [h EXCEPT ![c].ev_pc = "read", ![c].event_id = 0]
       \/ /\ WriteFails(c, s)
          /\ Select(c, ConnectionError)
          /\ UNCHANGED s2c
       \/ /\ WriteExpires(c, s)
          /\ Select(c, Timeout)
          /\ UNCHANGED s2c
    /\ UNCHANGED <<conn, kind, nstreams, c2s, sstate, words, run_pc, run_task,
                   active_connection, lock, out, cl>>

\* server.rs:139, `let response = commit_id + 2`
commit_response_PlusCount(commit_id, hr) == commit_id + 2 + hr.counter

commit_response(commit_id, hr) == commit_id + 2

\* server.rs:133-139 and 156-163: read a commit id and compute the response
StateCommitRead(c) ==
    /\ h[c].pc = "loops" /\ h[c].state_commit_stream # NoStream /\ h[c].sc_pc = "read"
    /\ LET s == h[c].state_commit_stream IN
       \/ /\ Readable(c, s, U32_BYTES)
          /\ LET commit_id == from_le_bytes(Take(c2s[c][s], U32_BYTES))
                 response == commit_response(commit_id, h[c]) IN
             \/ /\ Overflows(commit_id, 2)
                /\ Panic(c)
             \/ /\ h' = [h EXCEPT ![c].commit_id = commit_id,
                               ![c].response = response % U32_MOD,
                               ![c].sc_pc = "write"]
                /\ c2s' = [c2s EXCEPT ![c][s] = Drop(@, U32_BYTES)]
                /\ UNCHANGED <<conn, kind, nstreams, s2c, sstate, words, out>>
       \/ /\ ReadFails(c, s)
          /\ Select(c, ConnectionError)
          /\ UNCHANGED <<transport, out>>
       \/ /\ ReadExpires(c, s, U32_BYTES)
          /\ Select(c, Timeout)
          /\ UNCHANGED <<transport, out>>
    /\ UNCHANGED <<run_pc, run_task, active_connection, lock, cl>>

\* server.rs:140-154: send the response
StateCommitWrite(c) ==
    /\ h[c].pc = "loops" /\ h[c].state_commit_stream # NoStream /\ h[c].sc_pc = "write"
    /\ LET s == h[c].state_commit_stream IN
       \/ /\ Writable(c, s)
          /\ s2c' = [s2c EXCEPT ![c][s] = @ \o to_le_bytes(h[c].response)]
          /\ h' = [h EXCEPT ![c].sc_pc = "read", ![c].commit_id = 0, ![c].response = 0]
       \/ /\ WriteFails(c, s)
          /\ Select(c, ConnectionError)
          /\ UNCHANGED s2c
       \/ /\ WriteExpires(c, s)
          /\ Select(c, Timeout)
          /\ UNCHANGED s2c
    /\ UNCHANGED <<conn, kind, nstreams, c2s, sstate, words, run_pc, run_task,
                   active_connection, lock, out, cl>>

\* server.rs:191, `counter += 1` after a successful send
next_counter_Stuck(counter) == counter

next_counter(counter) == counter + 1

\* server.rs:179-185 and 203-210: read a request and take the counter as the action
ActionRead(c) ==
    /\ h[c].pc = "loops" /\ h[c].action_stream # NoStream /\ h[c].ac_pc = "read"
    /\ LET s == h[c].action_stream IN
       \/ /\ Readable(c, s, U32_BYTES)
          /\ h' = [h EXCEPT ![c].action = h[c].counter, ![c].ac_pc = "write"]
          /\ c2s' = [c2s EXCEPT ![c][s] = Drop(@, U32_BYTES)]
       \/ /\ ReadFails(c, s)
          /\ Select(c, ConnectionError)
          /\ UNCHANGED c2s
       \/ /\ ReadExpires(c, s, U32_BYTES)
          /\ Select(c, Timeout)
          /\ UNCHANGED c2s
    /\ UNCHANGED <<conn, kind, nstreams, s2c, sstate, words, run_pc, run_task,
                   active_connection, lock, out, cl>>

\* server.rs:186-201: send the action and advance the counter
ActionWrite(c) ==
    /\ h[c].pc = "loops" /\ h[c].action_stream # NoStream /\ h[c].ac_pc = "write"
    /\ LET s == h[c].action_stream IN
       \/ /\ Writable(c, s)
          /\ \/ /\ Overflows(h[c].counter, 1)
                /\ Panic(c)
             \/ /\ h' = [h EXCEPT ![c].counter = next_counter(@) % U32_MOD,
                                  ![c].ac_pc = "read", ![c].action = 0]
                /\ s2c' = [s2c EXCEPT ![c][s] = @ \o to_le_bytes(h[c].action)]
                /\ UNCHANGED <<conn, kind, nstreams, c2s, sstate, words, out>>
       \/ /\ WriteFails(c, s)
          /\ Select(c, ConnectionError)
          /\ UNCHANGED <<transport, out>>
       \/ /\ WriteExpires(c, s)
          /\ Select(c, Timeout)
          /\ UNCHANGED <<transport, out>>
    /\ UNCHANGED <<run_pc, run_task, active_connection, lock, cl>>

\* server.rs:218-221, connection.closed() completes; and server.rs:122, 167, 214,
\* the Ok(()) of a loop whose stream was never bound
SelectOk(c) ==
    /\ h[c].pc = "loops"
    /\ \/ conn[c] # "open"
       \/ NoStream \in {h[c].event_stream, h[c].state_commit_stream, h[c].action_stream}
    /\ Select(c, Ok)
    /\ UNCHANGED <<transport, run_pc, run_task, active_connection, lock, out,
                   cl>>

\* server.rs:371-384, the close code and reason for a stream result
close_for_TimeoutAsError(stream_result) ==
    CASE stream_result = Ok -> <<0, "Streams completed">>
      [] OTHER -> <<5, "Stream error">>

close_for_OkAsError(stream_result) ==
    CASE stream_result = Timeout -> <<4, "Stream operation timeout">>
      [] OTHER -> <<5, "Stream error">>

close_for(stream_result) ==
    CASE stream_result = Ok -> <<0, "Streams completed">>
      [] stream_result = Timeout -> <<4, "Stream operation timeout">>
      [] OTHER -> <<5, "Stream error">>

\* server.rs:364-386: the slot is cleared under the lock, the connection is closed
\* with the code of the stream result, and the handler returns Ok(())
HandlerClear_Propagate(c) ==
    /\ h[c].pc = "clear"
    /\ lock = 0
    /\ active_connection' = "None"
    /\ Return(c, h[c].stream_result,
              close_for(h[c].stream_result)[1], close_for(h[c].stream_result)[2])
    /\ h' = [h EXCEPT ![c].pc = "returned"]
    /\ UNCHANGED <<run_pc, run_task, lock, cl>>

HandlerClear(c) ==
    /\ h[c].pc = "clear"
    /\ lock = 0
    /\ active_connection' = "None"
    /\ Return(c, Ok, close_for(h[c].stream_result)[1], close_for(h[c].stream_result)[2])
    /\ h' = [h EXCEPT ![c].pc = "returned"]
    /\ UNCHANGED <<run_pc, run_task, lock, cl>>

(***************************************************************************)
(* ProtonClient and ProtonConnection, client.rs.  One client instance      *)
(* makes its calls one after the other.                                    *)
(***************************************************************************)
\* a call returns ret to the caller; a failed connect leaves no ProtonConnection
Returns(client, call, ret) ==
    [client EXCEPT !.pc = IF call = "connect" /\ ret # Ok THEN "idle" ELSE "ready",
                   !.conn = IF call = "connect" /\ ret # Ok THEN 0 ELSE @,
                   !.arg = 0,
                   !.ret = ret]

\* client.rs:149, endpoint.connect(..)?.await?: the attempt is made
ClientConnect_Retry(c) ==
    /\ cl.pc \in {"idle", "retry"}
    /\ NextAttempt(c)
    /\ Attempt(c, "client")
    /\ cl' = IF Admit = "refused"
             THEN [cl EXCEPT !.pc = "retry", !.ret = "None"]
             ELSE [cl EXCEPT !.pc = "connecting", !.conn = c, !.ret = "None"]
    /\ UNCHANGED <<nstreams, c2s, s2c, sstate, words, server>>

ClientConnect(c) ==
    /\ cl.pc = "idle"
    /\ NextAttempt(c)
    /\ Attempt(c, "client")
    /\ cl' = IF Admit = "refused"
             THEN Returns(cl, "connect", FromConnectionError)
             ELSE [cl EXCEPT !.pc = "connecting", !.conn = c, !.ret = "None"]
    /\ UNCHANGED <<nstreams, c2s, s2c, sstate, words, server>>

\* client.rs:149-153: the transport handshake ends
ClientConnected_Reset ==
    /\ cl.pc = "connecting"
    /\ conn[cl.conn] # "incoming"
    /\ cl' = IF conn[cl.conn] = "open"
             THEN [cl EXCEPT !.pc = "establish", !.last_event_id = 0]
             ELSE Returns(cl, "connect", FromConnectionError)
    /\ UNCHANGED <<transport, server>>

ClientConnected ==
    /\ cl.pc = "connecting"
    /\ conn[cl.conn] # "incoming"
    /\ cl' = IF conn[cl.conn] = "open"
             THEN [cl EXCEPT !.pc = "establish"]
             ELSE Returns(cl, "connect", FromConnectionError)
    /\ UNCHANGED <<transport, server>>

\* client.rs:32-55, establish_streams: the discriminators it writes, one on each
\* stream it opens, in this order
establish_streams_ActionFirst == <<STREAM_ACTION, STREAM_EVENT, STREAM_STATE_COMMIT>>

establish_streams == <<STREAM_EVENT, STREAM_STATE_COMMIT, STREAM_ACTION>>

\* client.rs:32-55, establish_streams: the next stream is opened and its
\* discriminator written, Event, then StateCommit, then Action; client.rs:159
ClientEstablish ==
    /\ cl.pc = "establish"
    /\ LET c == cl.conn
           s == nstreams[c] + 1 IN
       IF conn[c] = "open"
       THEN /\ nstreams' = [nstreams EXCEPT ![c] = s]
            /\ c2s' = [c2s EXCEPT ![c][s] = <<establish_streams[s]>>]
            /\ sstate' = [sstate EXCEPT ![c][s] = establish_streams[s]]
            /\ cl' = IF s = Len(establish_streams)
                     THEN Returns(cl, "connect", Ok)
                     ELSE cl
            /\ UNCHANGED <<conn, kind, s2c, words, server>>
       ELSE /\ cl' = Returns(cl, "connect", FromConnectionError)
            /\ UNCHANGED <<transport, server>>

\* the request of a call is written: client.rs:63, 78, 94
ClientWrite(client, call, s, v) ==
    LET c == cl.conn IN
    IF conn[c] = "open"
    THEN /\ c2s' = [c2s EXCEPT ![c][s] = @ \o to_le_bytes(v)]
         /\ words' = [words EXCEPT ![c] = @ + 1]
         /\ cl' = [client EXCEPT !.pc = call, !.arg = v, !.ret = "None"]
         /\ UNCHANGED <<conn, kind, nstreams, s2c, sstate, server>>
    ELSE /\ cl' = Returns(client, call, FromWriteError)
         /\ words' = [words EXCEPT ![c] = @ + 1]
         /\ UNCHANGED <<conn, kind, nstreams, c2s, s2c, sstate, server>>

\* the response of a call is awaited: client.rs:64-66, 79-81, 95-97
ClientRead(call, s) ==
    LET c == cl.conn IN
    \/ /\ conn[c] = "open" /\ Len(s2c[c][s]) >= U32_BYTES
       /\ cl' = Returns(cl, call, Ok)
       /\ s2c' = [s2c EXCEPT ![c][s] = Drop(@, U32_BYTES)]
       /\ UNCHANGED <<conn, kind, nstreams, c2s, sstate, words, server>>
    \/ /\ conn[c] # "open"
       /\ cl' = Returns(cl, call, FromReadExactError)
       /\ UNCHANGED <<transport, server>>
    \/ /\ conn[c] = "open" /\ Len(s2c[c][s]) < U32_BYTES
       /\ cl' = Returns(cl, call, FromElapsed)
       /\ UNCHANGED <<transport, server>>

\* ProtonConnection::send_event, client.rs:172-175, to the write of client.rs:63
SendEvent_NoIncrement ==
    /\ cl.pc = "ready" /\ words[cl.conn] < MaxWords
    /\ ClientWrite(cl, "send_event", STREAM_EVENT, cl.last_event_id)

SendEvent ==
    /\ cl.pc = "ready" /\ words[cl.conn] < MaxWords
    /\ LET event_id == (cl.last_event_id + 1) % U32_MOD IN
       ClientWrite([cl EXCEPT !.last_event_id = event_id],
                   "send_event", STREAM_EVENT, event_id)

\* client.rs:64-66 and 175-184: the acknowledgment is awaited and returned
SendEventRead_Rollback ==
    /\ cl.pc = "send_event"
    /\ LET c == cl.conn
           s == STREAM_EVENT
           failed == [Returns(cl, "send_event", ConnectionError)
                         EXCEPT !.last_event_id = @ - 1] IN
       \/ /\ conn[c] = "open" /\ Len(s2c[c][s]) >= U32_BYTES
          /\ cl' = Returns(cl, "send_event", Ok)
          /\ s2c' = [s2c EXCEPT ![c][s] = Drop(@, U32_BYTES)]
          /\ UNCHANGED <<conn, kind, nstreams, c2s, sstate, words, server>>
       \/ /\ conn[c] # "open"
          /\ cl' = failed
          /\ UNCHANGED <<transport, server>>
       \/ /\ conn[c] = "open" /\ Len(s2c[c][s]) < U32_BYTES
          /\ cl' = failed
          /\ UNCHANGED <<transport, server>>

SendEventRead ==
    /\ cl.pc = "send_event"
    /\ ClientRead("send_event", STREAM_EVENT)

\* ProtonConnection::send_state_commit, client.rs:187-188 and 78
SendStateCommit ==
    /\ cl.pc = "ready" /\ words[cl.conn] < MaxWords
    /\ \E commit_id \in ClientCommitWords :
          ClientWrite(cl, "send_state_commit", STREAM_STATE_COMMIT, commit_id)

\* client.rs:79-81 and 188-199
SendStateCommitRead ==
    /\ cl.pc = "send_state_commit"
    /\ ClientRead("send_state_commit", STREAM_STATE_COMMIT)

\* ProtonConnection::read_action, client.rs:203-204 and 93-94
ReadAction ==
    /\ cl.pc = "ready" /\ words[cl.conn] < MaxWords
    /\ ClientWrite(cl, "read_action", STREAM_ACTION, ACTION_PROBE)

\* client.rs:95-97 and 204-212
ReadActionRead ==
    /\ cl.pc = "read_action"
    /\ ClientRead("read_action", STREAM_ACTION)

\* the caller drops the ProtonConnection: the connection is closed
ClientDrop ==
    /\ cl.pc = "ready"
    /\ conn' = [conn EXCEPT ![cl.conn] = IF @ = "open" THEN "closed" ELSE @]
    /\ Discard(cl.conn, 0)
    /\ cl' = [cl EXCEPT !.pc = "idle", !.conn = 0, !.ret = "None"]
    /\ UNCHANGED server

(***************************************************************************)
(* ClientRepl, client_repl.rs: the "close" command.  The REPL holds        *)
(* Option<ProtonConnection>; None is cl.conn = 0.                          *)
(***************************************************************************)
\* conn.close().await: what ProtonConnection::close does to the transport
\* connection cn of the session, closing it if it is open
close(cn) == IF cn = "open" THEN "closed" ELSE cn

\* client_repl.rs:283-290, the REPL's state after "close"
repl_close_Fails(client) ==
    IF client.conn # 0
    THEN [client EXCEPT !.pc = "idle", !.conn = 0, !.ret = "None"]
    ELSE [client EXCEPT !.ret = ConnectionError]

repl_close(client) ==
    IF client.conn # 0
    THEN [client EXCEPT !.pc = "idle", !.conn = 0, !.ret = "None"]
    ELSE client

\* client_repl.rs:283-284, the connections after "close"
repl_close_conn(client, cn) ==
    IF client.conn # 0
    THEN [cn EXCEPT ![client.conn] = close(@)]
    ELSE cn

\* client_repl.rs:282-291: the user types "close" between two calls
ReplClose ==
    /\ cl.pc \in {"idle", "ready"}
    /\ cl' = repl_close(cl)
    /\ conn' = repl_close_conn(cl, conn)
    /\ IF cl.conn # 0
       THEN Discard(cl.conn, 0)
       ELSE UNCHANGED <<kind, nstreams, c2s, s2c, sstate, words>>
    /\ UNCHANGED server

(***************************************************************************)
(* The specification.                                                      *)
(***************************************************************************)
Next ==
    \/ \E c \in Conns : RawConnect(c)
    \/ \E c \in Conns : RawOpen(c)
    \/ \E c \in Conns : RawWrite(c)
    \/ \E c \in Conns : RawClose(c)
    \/ \E c \in Conns : Drain(c)
    \/ \E c \in Conns : RunAccept(c)
    \/ RunJoin
    \/ RunCleanup
    \/ \E c \in Conns : HandlerConnecting(c)
    \/ \E c \in Conns : HandlerLock(c)
    \/ \E c \in Conns : AcceptBi(c)
    \/ \E c \in Conns : HandleStream(c)
    \/ \E c \in Conns : EventRead(c)
    \/ \E c \in Conns : EventWrite(c)
    \/ \E c \in Conns : StateCommitRead(c)
    \/ \E c \in Conns : StateCommitWrite(c)
    \/ \E c \in Conns : ActionRead(c)
    \/ \E c \in Conns : ActionWrite(c)
    \/ \E c \in Conns : SelectOk(c)
    \/ \E c \in Conns : HandlerClear(c)
    \/ \E c \in Conns : ClientConnect(c)
    \/ ClientConnected
    \/ ClientEstablish
    \/ SendEvent
    \/ SendEventRead
    \/ SendStateCommit
    \/ SendStateCommitRead
    \/ ReadAction
    \/ ReadActionRead
    \/ ClientDrop
    \/ ReplClose

Spec == Init /\ [][Next]_vars

\* the steps of the server: run() and the handler task it has spawned.  The tokio
\* runtime polls a task that is ready, and every await of the handler either
\* completes, fails or runs into its deadline
ServerNext ==
    \/ \E c \in Conns : RunAccept(c)
    \/ RunJoin
    \/ RunCleanup
    \/ \E c \in Conns : HandlerConnecting(c)
    \/ \E c \in Conns : HandlerLock(c)
    \/ \E c \in Conns : AcceptBi(c)
    \/ \E c \in Conns : HandleStream(c)
    \/ \E c \in Conns : EventRead(c)
    \/ \E c \in Conns : EventWrite(c)
    \/ \E c \in Conns : StateCommitRead(c)
    \/ \E c \in Conns : StateCommitWrite(c)
    \/ \E c \in Conns : ActionRead(c)
    \/ \E c \in Conns : ActionWrite(c)
    \/ \E c \in Conns : SelectOk(c)
    \/ \E c \in Conns : HandlerClear(c)

FairSpec == Spec /\ WF_vars(ServerNext)

(***************************************************************************)
(* Properties.                                                             *)
(***************************************************************************)
\* the 4-byte words of a stream buffer, in the order they were written
WordsOf(buf) ==
    [i \in 1..(Len(buf) \div U32_BYTES) |->
        from_le_bytes(SubSeq(buf, U32_BYTES * (i - 1) + 1, U32_BYTES * i))]

StrictlyIncreasing(w) == \A i, j \in 1..Len(w) : i < j => w[i] < w[j]

\* this step of the handler of c reads a word from stream s
ReadsWord(c, s) ==
    /\ h[c].pc = "loops" /\ s # NoStream
    /\ conn[c] = "open" /\ conn'[c] = "open"
    /\ Len(c2s[c][s]) >= U32_BYTES
    /\ c2s'[c][s] = Drop(c2s[c][s], U32_BYTES)

\* this step of the handler of c writes on stream s
Writes(c, s) ==
    /\ h[c].pc = "loops" /\ s # NoStream
    /\ conn[c] = "open" /\ conn'[c] = "open"
    /\ Len(s2c'[c][s]) > Len(s2c[c][s])

\* the word at the head of a stream buffer
HeadWord(buf) == from_le_bytes(Take(buf, U32_BYTES))

(***************************************************************************)
(* C1. Event monotonicity. An id read on the Event stream is accepted only *)
(* if it is strictly greater than last_event_id (0 at first): it then      *)
(* becomes last_event_id and is to be acknowledged.  Any other id ends     *)
(* the Event loop with InvalidStream, with no byte written and             *)
(* last_event_id unchanged; a handler that has left its loops writes       *)
(* nothing more and closes the connection with code 5.  The acknowledged   *)
(* ids buffered on a connection are strictly increasing and below an id    *)
(* accepted but not yet acknowledged.                                      *)
(***************************************************************************)
C1_ReadStep ==
    \A c \in Conns :
        (ReadsWord(c, h[c].event_stream) /\ h[c].ev_pc = "read") =>
            LET event_id == HeadWord(c2s[c][h[c].event_stream]) IN
            IF event_id > h[c].last_event_id
            THEN /\ h'[c].pc = "loops" /\ h'[c].ev_pc = "write"
                 /\ h'[c].last_event_id = event_id
            ELSE /\ h'[c].pc = "clear" /\ h'[c].stream_result = InvalidStream
                 /\ h'[c].last_event_id = h[c].last_event_id
                 /\ s2c'[c] = s2c[c]

C1_NoLateAck ==
    \A c \in Conns : \A s \in Streams :
        h[c].pc # "loops" => Len(s2c'[c][s]) <= Len(s2c[c][s])

C1_Acks ==
    \A c \in Conns :
        /\ h[c].event_stream # NoStream =>
              LET acks == WordsOf(s2c[c][h[c].event_stream]) IN
              /\ StrictlyIncreasing(acks)
              /\ \A i \in 1..Len(acks) :
                    IF h[c].ev_pc = "write"
                    THEN acks[i] < h[c].last_event_id
                    ELSE acks[i] <= h[c].last_event_id
        /\ (h[c].pc = "returned" /\ h[c].stream_result = InvalidStream) =>
              (out[c].close_code = 5 /\ conn[c] # "open")

C1_EventMonotonic == [](C1_Acks) /\ [][C1_ReadStep /\ C1_NoLateAck]_vars

\* a peer sent 7 and then an id that is not greater: 7 was acknowledged, the
\* second id ended the loops with InvalidStream
C1_Witness ==
    \E c \in Conns :
        /\ h[c].pc = "clear" /\ h[c].stream_result = InvalidStream
        /\ h[c].last_event_id = 7
        /\ conn[c] = "open"
        /\ WordsOf(s2c[c][h[c].event_stream]) = <<7>>

(***************************************************************************)
(* C2. Acknowledgment echo, end to end. The acknowledgment the server      *)
(* writes is the id it accepted, and a send_event of the client that       *)
(* returns Ok returns the id it sent, the client's counter after the       *)
(* increment.                                                              *)
(***************************************************************************)
C2_ServerEcho ==
    \A c \in Conns :
        (Writes(c, h[c].event_stream) /\ h[c].ev_pc = "write") =>
            s2c'[c][h[c].event_stream] =
                s2c[c][h[c].event_stream] \o to_le_bytes(h[c].last_event_id)

C2_ClientEcho ==
    (/\ cl.pc = "send_event" /\ cl'.pc = "ready"
     /\ Len(s2c'[cl.conn][STREAM_EVENT]) < Len(s2c[cl.conn][STREAM_EVENT])
     /\ conn'[cl.conn] = "open") =>
        /\ HeadWord(s2c[cl.conn][STREAM_EVENT]) = cl.arg
        /\ cl.arg = cl.last_event_id

C2_AckEcho == [][C2_ServerEcho /\ C2_ClientEcho]_vars

(***************************************************************************)
(* C3. StateCommit transform. A commit id c <= u32::MAX - 2 read on the    *)
(* StateCommit stream gives the response c + 2 and nothing else: the       *)
(* handler goes on to write exactly the four bytes of c + 2, whatever the  *)
(* handler has read, counted or answered before, and it does not panic.    *)
(***************************************************************************)
C3_ReadStep ==
    \A c \in Conns :
        (h[c].pc = "loops" /\ h[c].sc_pc = "read" /\ conn[c] = "open"
         /\ Len(c2s[c][h[c].state_commit_stream]) >= U32_BYTES
         /\ h'[c].sc_pc = "write") =>
            LET commit_id == HeadWord(c2s[c][h[c].state_commit_stream]) IN
            /\ h'[c].commit_id = commit_id
            /\ commit_id <= U32_MAX - 2 => h'[c].response = commit_id + 2

C3_WriteStep ==
    \A c \in Conns :
        (Writes(c, h[c].state_commit_stream) /\ h[c].sc_pc = "write") =>
            /\ s2c'[c][h[c].state_commit_stream] =
                  s2c[c][h[c].state_commit_stream] \o to_le_bytes(h[c].response)
            /\ h[c].commit_id <= U32_MAX - 2 =>
                  WordsOf(s2c'[c][h[c].state_commit_stream])
                      [Len(s2c'[c][h[c].state_commit_stream]) \div U32_BYTES]
                  = h[c].commit_id + 2

C3_NoPanic ==
    \A c \in Conns :
        (h[c].pc = "loops" /\ h'[c].pc = "panicked" /\ h[c].ac_pc # "write") =>
            /\ h[c].sc_pc = "read"
            /\ Len(c2s[c][h[c].state_commit_stream]) >= U32_BYTES
            /\ HeadWord(c2s[c][h[c].state_commit_stream]) > U32_MAX - 2

C3_StateCommitTransform == [][C3_ReadStep /\ C3_WriteStep /\ C3_NoPanic]_vars

\* after an Action was answered, the commit id u32::MAX - 2 was answered u32::MAX
C3_Witness ==
    \E c \in Conns :
        /\ conn[c] = "open" /\ h[c].pc = "loops"
        /\ h[c].counter = 1
        /\ WordsOf(s2c[c][h[c].state_commit_stream]) = <<U32_MAX>>

(***************************************************************************)
(* C4. Action sequencing. On a connection the Action responses written so  *)
(* far are 0, 1, ..., N-1 in this order, N being the counter: one          *)
(* response per increment, none repeated or skipped, whatever the request  *)
(* words were.  (A ProtonClient takes the responses it has read off the    *)
(* front; the ones still buffered are the last of the sequence.)           *)
(***************************************************************************)
C4_ActionSequencing ==
    \A c \in Conns :
        (conn[c] = "open" /\ h[c].pc \in {"loops", "clear"}
         /\ h[c].action_stream # NoStream) =>
            LET actions == WordsOf(s2c[c][h[c].action_stream])
                n == Len(actions) IN
            /\ n <= h[c].counter
            /\ \A i \in 1..n : actions[i] = h[c].counter - n + i - 1
            /\ kind[c] = "raw" => n = h[c].counter
            /\ h[c].ac_pc = "write" => h[c].action = h[c].counter

\* two Action requests were answered 0 and then 1
C4_Witness ==
    \E c \in Conns :
        /\ conn[c] = "open" /\ kind[c] = "raw" /\ h[c].pc = "loops"
        /\ h[c].counter = 2
        /\ WordsOf(s2c[c][h[c].action_stream]) = <<0, 1>>

\* this step is the connection attempt numbered c
Attempted(c) == conn[c] = "new" /\ conn'[c] # "new"

(***************************************************************************)
(* C5. Admission exclusivity. A connection attempted while another is      *)
(* active (its handler in the stream handshake or in the channel loops)    *)
(* is refused: no handler is spawned for it and no channel loop runs for   *)
(* it.  A connection attempted when the endpoint holds none is admitted,   *)
(* and no admitted connection is turned away by its handler, so after a    *)
(* session has ended and its connection is gone the next one is served.    *)
(***************************************************************************)
C5_RefusedWhileActive ==
    \A c \in Conns :
        (Attempted(c) /\ \E d \in Conns : d # c /\ Active(d)) =>
            conn'[c] = "refused" /\ h'[c].pc = "idle"

C5_AdmittedWhenFree ==
    \A c \in Conns :
        (Attempted(c) /\ Counted = {}) => conn'[c] = "incoming"

C5_NoLoopWhenRefused ==
    \A c \in Conns :
        /\ conn[c] = "refused" => (h[c].pc = "idle" /\ ~out[c].loops_started)
        /\ out[c].close_reason # "Another client is already connected"
        /\ Active(c) => \A d \in Conns : d # c => ~Active(d)

C6_SerializedLifecycles ==
    /\ Cardinality({c \in Conns : InPhase(c)}) <= 1
    /\ run_pc = "accept" => \A c \in Conns : ~Running(c)
    /\ \A c \in Conns : Running(c) => (run_pc = "await" /\ run_task = c)

\* a connection waits to be accepted while the handler of an earlier one, whose
\* connection is already gone, is still in its channel loops
C6_Witness ==
    \E c, d \in Conns :
        /\ c # d
        /\ h[d].pc = "loops" /\ conn[d] = "drained"
        /\ conn[c] = "incoming" /\ h[c].pc = "idle"
        /\ run_pc = "await"

(***************************************************************************)
(* C7. Slot release. Whenever run() is at endpoint.accept() the slot       *)
(* active_connection is None, and so it is whenever a handler has          *)
(* returned or its task has failed, whatever the outcome was.              *)
(***************************************************************************)
C7_SlotRelease ==
    /\ run_pc = "accept" => (active_connection = "None" /\ lock = 0)
    /\ \A c \in Conns :
          h[c].pc \in {"returned", "panicked"} =>
              (active_connection = "None" /\ lock # c)

\* run() is back at accept after a connection whose handler task has been joined,
\* and the next connection is waiting
C7_Witness ==
    /\ run_pc = "accept"
    /\ \E c, d \in Conns :
          /\ h[c].pc = "joined"
          /\ conn[d] = "incoming" /\ h[d].pc = "idle"

(***************************************************************************)
(* C8. Handshake completeness. When the wait for the next stream expires   *)
(* (the connection is open and the peer has opened no further stream),     *)
(* the server closes the connection with code 3, handle_connection         *)
(* returns the error Timeout, no channel loop has been started and the     *)
(* handler is finished.                                                    *)
(***************************************************************************)
C8_HandshakeTimeout ==
    [][\A c \in Conns :
          (h[c].pc = "accept_bi" /\ conn[c] = "open"
           /\ nstreams[c] = h[c].streams_established
           /\ h'[c].pc # "accept_bi") =>
              /\ h'[c].pc = "returned"
              /\ out'[c].close_code = 3
              /\ out'[c].result = Timeout
              /\ ~out'[c].loops_started]_vars

\* this step of the handler of c is handle_stream having read discriminator d
Classified(c, d) ==
    /\ h[c].pc = "handle_stream" /\ h'[c].pc # "handle_stream"
    /\ conn[c] = "open"
    /\ Len(c2s[c][h[c].cur]) >= 1 /\ Head(c2s[c][h[c].cur]) = d
    /\ h'[c].discriminator = d

Bindings(hr) == <<hr.event_stream, hr.state_commit_stream, hr.action_stream>>

\* the handshake ended with InvalidStream and close code 1, before any loop
RejectedInvalid(c) ==
    /\ h'[c].pc = "returned"
    /\ out'[c].result = InvalidStream
    /\ out'[c].close_code = 1
    /\ ~out'[c].loops_started
    /\ conn'[c] # "open"

(***************************************************************************)
(* C9. Unknown discriminator. When the first byte of a stream is not 1, 2  *)
(* or 3, handle_stream fails with InvalidStream, the three role bindings   *)
(* are what they were (the stream is bound to no role), and the            *)
(* connection is closed with code 1 before any channel loop runs.          *)
(***************************************************************************)
C9_UnknownDiscriminator ==
    [][\A c \in Conns : \A d \in Bytes \ {STREAM_EVENT, STREAM_STATE_COMMIT, STREAM_ACTION} :
          Classified(c, d) =>
              /\ RejectedInvalid(c)
              /\ Bindings(h'[c]) = Bindings(h[c])
              /\ \A i \in 1..3 : Bindings(h'[c])[i] # h[c].cur]_vars

\* the second stream of a connection came with discriminator 0x09
C9_Witness ==
    \E c \in Conns :
        /\ h[c].pc = "returned" /\ h[c].discriminator = 9 /\ h[c].cur = 2
        /\ out[c].result = InvalidStream /\ out[c].close_code = 1
        /\ h[c].streams_established = 1

(***************************************************************************)
(* C10. Duplicate role. When the discriminator of a stream names a role    *)
(* that is already bound, handle_stream fails with InvalidStream, the      *)
(* role stays bound to the first stream (all bindings are what they        *)
(* were), and the connection is closed with code 1.                        *)
(***************************************************************************)
C10_DuplicateRole ==
    [][\A c \in Conns : \A d \in {STREAM_EVENT, STREAM_STATE_COMMIT, STREAM_ACTION} :
          (Classified(c, d) /\ Bindings(h[c])[d] # NoStream) =>
              /\ RejectedInvalid(c)
              /\ Bindings(h'[c]) = Bindings(h[c])
              /\ Bindings(h'[c])[d] < h[c].cur]_vars

\* the second stream of a connection named the Event role again
C10_Witness ==
    \E c \in Conns :
        /\ h[c].pc = "returned" /\ h[c].discriminator = STREAM_EVENT
        /\ h[c].cur = 2 /\ h[c].event_stream = 1
        /\ out[c].result = InvalidStream /\ out[c].close_code = 1

(***************************************************************************)
(* C11. Loop-phase close codes. A handler that has run its channel loops   *)
(* and returned has closed the connection with code 0 exactly when the     *)
(* session outcome is Ok, with code 4 exactly when it is Timeout and with  *)
(* code 5 exactly when it is InvalidStream or ConnectionError; and a       *)
(* close code, once issued for a connection, is not replaced by another.   *)
(***************************************************************************)
C11_CodeOfOutcome ==
    \A c \in Conns :
        (h[c].pc = "returned" /\ out[c].loops_started) =>
            /\ h[c].stream_result \in {Ok, Timeout, InvalidStream, ConnectionError}
            /\ out[c].close_code \in {0, 4, 5}
            /\ out[c].close_code = 0 <=> h[c].stream_result = Ok
            /\ out[c].close_code = 4 <=> h[c].stream_result = Timeout
            /\ out[c].close_code = 5 <=>
                  h[c].stream_result \in {InvalidStream, ConnectionError}

C11_OneCode ==
    \A c \in Conns :
        /\ out[c].close_code # NoCode =>
              (out'[c].close_code = out[c].close_code \/ h'[c].pc = "joined")
        /\ (out[c].close_code = NoCode /\ out'[c].close_code # NoCode) =>
              h'[c].pc = "returned"

C11_LoopCloseCodes == [](C11_CodeOfOutcome) /\ [][C11_OneCode]_vars

\* a deadline expired in a channel loop and the connection was closed with code 4
C11_Witness ==
    \E c \in Conns :
        /\ h[c].pc = "returned" /\ out[c].loops_started
        /\ h[c].stream_result = Timeout /\ out[c].close_code = 4

(***************************************************************************)
(* C12. Handshake-phase close codes. A handshake that ends with close      *)
(* code 1 has read a discriminator that names no role or a role already    *)
(* bound; a transport error while accepting a stream gives code 2; an      *)
(* expired deadline, waiting for the next stream or for the discriminator  *)
(* of an opened stream, gives code 3.                                      *)
(***************************************************************************)
C12_Code1Classified ==
    \A c \in Conns :
        (h[c].pc = "handle_stream" /\ out'[c].close_code = 1) =>
            /\ h'[c].discriminator # NoByte
            /\ \/ h'[c].discriminator \notin
                     {STREAM_EVENT, STREAM_STATE_COMMIT, STREAM_ACTION}
               \/ Bindings(h[c])[h'[c].discriminator] # NoStream

C12_AcceptError ==
    \A c \in Conns :
        (h[c].pc = "accept_bi" /\ conn[c] # "open" /\ h'[c].pc # "accept_bi") =>
            out'[c].close_code = 2

C12_Deadlines ==
    \A c \in Conns :
        (h[c].pc = "accept_bi" /\ conn[c] = "open"
         /\ nstreams[c] = h[c].streams_established
         /\ h'[c].pc # "accept_bi") => out'[c].close_code = 3

C12_HandshakeCloseCodes ==
    [][C12_Code1Classified /\ C12_AcceptError /\ C12_Deadlines]_vars

\* the per-channel state of a handler
ChannelState(hr) ==
    <<hr.last_event_id, hr.counter, hr.ev_pc, hr.sc_pc, hr.ac_pc,
      hr.event_id, hr.commit_id, hr.response, hr.action>>

(***************************************************************************)
(* C13. First-to-finish race. The session outcome is set once, by the      *)
(* branch of the select! that completes first: InvalidStream by the Event  *)
(* loop reading an id that is not greater, Ok by the connection-closed     *)
(* signal, Timeout or ConnectionError by a read or write that did not      *)
(* complete.  Once it is set the handler has left its loops: the outcome   *)
(* does not change, no request is read from any stream, no response is     *)
(* written and no channel state changes.                                   *)
(***************************************************************************)
C13_OutcomeLeavesLoops ==
    \A c \in Conns :
        /\ h[c].stream_result # "None" => h[c].pc \in {"clear", "returned"}
        /\ h[c].pc = "clear" => h[c].stream_result # "None"

C13_FirstWins ==
    \A c \in Conns :
        (h[c].stream_result = "None" /\ h'[c].stream_result # "None") =>
            /\ h[c].pc = "loops" /\ h'[c].pc = "clear"
            /\ s2c'[c] = s2c[c]
            /\ ChannelState(h'[c]) = ChannelState(h[c])
            /\ CASE h'[c].stream_result = InvalidStream ->
                      /\ ReadsWord(c, h[c].event_stream)
                      /\ HeadWord(c2s[c][h[c].event_stream]) <= h[c].last_event_id
                 [] h'[c].stream_result = Ok ->
                      conn[c] # "open" /\ c2s'[c] = c2s[c]
                 [] OTHER ->
                      /\ h'[c].stream_result \in {Timeout, ConnectionError}
                      /\ c2s'[c] = c2s[c]

C13_OthersCancelled ==
    \A c \in Conns :
        h[c].stream_result # "None" =>
            /\ h'[c].stream_result = h[c].stream_result \/ h'[c].pc = "joined"
            /\ h'[c].pc # "joined" => ChannelState(h'[c]) = ChannelState(h[c])
            /\ \A s \in Streams :
                  /\ Len(s2c'[c][s]) <= Len(s2c[c][s])
                  /\ conn'[c] = "open" => Len(c2s'[c][s]) >= Len(c2s[c][s])

C13_FirstToFinish ==
    [](C13_OutcomeLeavesLoops) /\ [][C13_FirstWins /\ C13_OthersCancelled]_vars

\* the Event loop failed while a commit request was waiting: it stays unread
C13_Witness ==
    \E c \in Conns :
        /\ h[c].pc = "clear" /\ conn[c] = "open"
        /\ h[c].stream_result = InvalidStream
        /\ Len(c2s[c][h[c].state_commit_stream]) = U32_BYTES
        /\ s2c[c][h[c].state_commit_stream] = <<>>

(***************************************************************************)
(* C14. Graceful close. The outcome Ok is given by the connection-closed   *)
(* signal alone: the connection is no longer open, the step reads and      *)
(* writes nothing (the loops are dropped), and the handler then closes     *)
(* with code 0, "Streams completed", and returns Ok.                       *)
(***************************************************************************)
C14_ClosedWins ==
    \A c \in Conns :
        (h[c].pc = "loops" /\ h'[c].stream_result = Ok) =>
            /\ conn[c] # "open"
            /\ h'[c].pc = "clear"
            /\ c2s'[c] = c2s[c] /\ s2c'[c] = s2c[c]
            /\ ChannelState(h'[c]) = ChannelState(h[c])

C14_CodeZero ==
    \A c \in Conns :
        (h[c].pc = "returned" /\ h[c].stream_result = Ok) =>
            /\ out[c].close_code = 0
            /\ out[c].close_reason = "Streams completed"
            /\ out[c].result = Ok

C14_GracefulClose == [](C14_CodeZero) /\ [][C14_ClosedWins]_vars

\* the peer closed the connection while the loops were waiting
C14_Witness ==
    \E c \in Conns :
        /\ h[c].pc = "returned" /\ out[c].loops_started
        /\ h[c].stream_result = Ok /\ out[c].close_code = 0
        /\ h[c].last_event_id = 7

\* the calls of ProtonConnection that await a response
ClientCalls == {"send_event", "send_state_commit", "read_action"}

(***************************************************************************)
(* C15. Timeout classification. Every expired deadline surfaces as the     *)
(* error Timeout and never as ConnectionError: the wait for the next       *)
(* stream of the handshake (the connection is open and no stream is        *)
(* waiting), a per-message read or write of the server loops on an open    *)
(* connection, and the client's wait for a response on an open connection  *)
(* (fewer than four bytes have arrived).                                   *)
(***************************************************************************)
C15_AcceptDeadline ==
    \A c \in Conns :
        (h[c].pc = "accept_bi" /\ conn[c] = "open" /\ h'[c].pc = "returned") =>
            out'[c].result = Timeout

C15_LoopDeadline ==
    \A c \in Conns :
        (/\ h[c].pc = "loops" /\ conn[c] = "open" /\ kind[c] = "client"
         /\ h'[c].pc = "clear" /\ h'[c].stream_result # InvalidStream) =>
            h'[c].stream_result = Timeout

C15_ClientDeadline ==
    (/\ cl.pc \in ClientCalls /\ conn[cl.conn] = "open"
     /\ cl'.pc = "ready" /\ cl'.ret # Ok) =>
        cl'.ret = Timeout

C15_TimeoutClassification ==
    [][C15_AcceptDeadline /\ C15_LoopDeadline /\ C15_ClientDeadline]_vars

(***************************************************************************)
(* C16. Server liveness across failures. Whatever a handler does (it       *)
(* returns Ok, returns an error of the handshake, or its task panics),     *)
(* run() gets its JoinHandle back and returns to endpoint.accept(); and a  *)
(* connection that waits at the endpoint is eventually accepted and its    *)
(* handler reaches the handshake with a free slot (or the transport        *)
(* handshake of that connection fails and the handler returns).            *)
(***************************************************************************)
C16_AcceptResumes == (run_pc = "await") ~> (run_pc = "accept")

C16_ArrivalServed ==
    \A c \in Conns :
        (conn[c] = "incoming" /\ h[c].pc = "idle") ~>
            (h[c].pc \in {"accept_bi", "returned"})

C16_ServerLiveness == C16_AcceptResumes /\ C16_ArrivalServed

\* an earlier handler was joined and its connection is gone; run() has accepted
\* a later connection, whose handler runs its loops
C16_Witness ==
    \E c, d \in Conns :
        /\ c < d
        /\ h[c].pc = "joined" /\ conn[c] \in {"closed", "drained"}
        /\ run_pc = "await" /\ run_task = d
        /\ h[d].pc = "loops" /\ conn[d] = "open"

(***************************************************************************)
(* C17. Fresh session state. Every handler that gets the slot starts with  *)
(* a new ProtonStreamHandler: last_event_id and the Action counter are 0   *)
(* through the handshake and when the loops start, whatever earlier        *)
(* sessions did.  So on every session the first event id k >= 1 is         *)
(* accepted and acknowledged with k, and the Action responses written are  *)
(* 0, 1, 2, ... from 0.  (A peer other than ProtonClient leaves the        *)
(* responses in the stream, so there the stream shows the whole session.)  *)
(***************************************************************************)
C17_FreshAtHandshake ==
    \A c \in Conns :
        /\ h[c].pc \in {"accept_bi", "handle_stream"} =>
              h[c].last_event_id = 0 /\ h[c].counter = 0
        /\ (/\ h[c].pc = "loops" /\ conn[c] = "open" /\ kind[c] = "raw"
            /\ s2c[c][h[c].event_stream] = <<>> /\ h[c].ev_pc = "read") =>
              h[c].last_event_id = 0
        /\ (h[c].pc \in {"loops", "clear"} /\ conn[c] = "open" /\ kind[c] = "raw") =>
              LET actions == WordsOf(s2c[c][h[c].action_stream]) IN
              \A i \in 1..Len(actions) : actions[i] = i - 1

C17_LoopsStartFresh ==
    \A c \in Conns :
        /\ (h[c].pc = "lock" /\ h'[c].pc = "accept_bi") =>
              /\ h'[c].last_event_id = 0 /\ h'[c].counter = 0
              /\ Bindings(h'[c]) = Bindings(NewHandler("accept_bi"))
        /\ (h[c].pc # "loops" /\ h'[c].pc = "loops") =>
              /\ h'[c].last_event_id = 0 /\ h'[c].counter = 0
              /\ s2c'[c] = NoBuffers

C17_FirstEvent ==
    \A c \in Conns :
        LET s == h[c].event_stream IN
        /\ (/\ kind[c] = "raw" /\ ReadsWord(c, s) /\ s2c[c][s] = <<>>
            /\ HeadWord(c2s[c][s]) >= 1) =>
              /\ h'[c].pc = "loops" /\ h'[c].ev_pc = "write"
              /\ h'[c].event_id = HeadWord(c2s[c][s])
        /\ (kind[c] = "raw" /\ Writes(c, s) /\ s2c[c][s] = <<>>) =>
              WordsOf(s2c'[c][s]) = <<h[c].event_id>>

C17_FreshSession ==
    [](C17_FreshAtHandshake) /\ [][C17_LoopsStartFresh /\ C17_FirstEvent]_vars

\* a second session, after one that was served and joined: 7 is acknowledged
\* with 7 and commit 7 answered with 9
C17_Witness ==
    \E c, d \in Conns :
        /\ c < d /\ h[c].pc = "joined"
        /\ h[d].pc = "loops" /\ conn[d] = "open" /\ kind[d] = "raw"
        /\ WordsOf(s2c[d][h[d].event_stream]) = <<7>>
        /\ WordsOf(s2c[d][h[d].state_commit_stream]) = <<9>>

(***************************************************************************)
(* C18. Client event counter persistence. last_event_id of the client      *)
(* starts at 0 and changes only in send_event, by exactly one, before the  *)
(* request is written; connect, the other calls, a failed call and the     *)
(* end of a connection leave it alone.  The id send_event writes on the    *)
(* Event stream is the counter after the increment, so the ids one client  *)
(* sends grow by one from call to call, across its connections.            *)
(***************************************************************************)
C18_CounterAtCall ==
    /\ cl.pc = "send_event" => cl.arg = cl.last_event_id /\ cl.arg >= 1
    /\ cl.last_event_id >= 0

C18_OnlySendEvent ==
    /\ cl'.last_event_id # cl.last_event_id =>
          /\ cl.pc = "ready"
          /\ cl'.last_event_id = cl.last_event_id + 1
          /\ cl'.pc \in {"send_event", "ready"}
    /\ (cl.pc = "ready" /\ cl'.pc = "send_event") =>
          /\ cl'.last_event_id = cl.last_event_id + 1
          /\ c2s'[cl.conn][STREAM_EVENT] =
                c2s[cl.conn][STREAM_EVENT] \o to_le_bytes(cl.last_event_id + 1)

C18_ClientCounter == [](C18_CounterAtCall) /\ [][C18_OnlySendEvent]_vars

\* the first send_event on the client's second connection sends 2
C18_Witness ==
    /\ cl.conn = 2 /\ cl.pc = "send_event"
    /\ cl.arg = 2 /\ words[2] = 1
    /\ c2s[2][STREAM_EVENT] = to_le_bytes(2)

(***************************************************************************)
(* C19. Rejection outcome. A connection that is turned away because        *)
(* another one is being served is closed by the server with the reason     *)
(* "Another client is already connected" and close code 0, its handler     *)
(* returns ConnectionError, and no stream of it is accepted.               *)
(***************************************************************************)
C19_RejectionOutcome ==
    \A c \in Conns :
        conn[c] = "refused" =>
            /\ out[c].close_reason = "Another client is already connected"
            /\ out[c].close_code = 0
            /\ out[c].result = ConnectionError
            /\ h[c].streams_established = 0

(***************************************************************************)
(* C20. Idempotent close. The "close" command given when the REPL holds    *)
(* no connection (none was made, or an earlier "close" took it) changes    *)
(* neither the client nor any connection and gives no error; "close"       *)
(* given twice leaves what one "close" leaves.                             *)
(***************************************************************************)
C20_CloseTwice ==
    /\ repl_close(repl_close(cl)) = repl_close(cl)
    /\ repl_close_conn(repl_close(cl), repl_close_conn(cl, conn)) =
          repl_close_conn(cl, conn)
    /\ cl.conn = 0 =>
          /\ repl_close(cl) = cl
          /\ repl_close_conn(cl, conn) = conn

C20_NoOpStep == (ReplClose /\ cl.conn = 0) => UNCHANGED vars

C20_IdempotentClose == [](C20_CloseTwice) /\ [][C20_NoOpStep]_vars

\* the connection was closed after an event had been sent on it; "close" can be
\* given again
C20_Witness ==
    /\ cl.conn = 0 /\ cl.pc = "idle" /\ cl.ret = "None"
    /\ cl.last_event_id > 0
    /\ \E c \in Conns : conn[c] \in {"closed", "drained"} /\ words[c] = 0

(***************************************************************************)
(* C21. Slot occupancy during a session. From admission until the handler  *)
(* clears the slot on exit, a flow that gets the lock and inspects         *)
(* active_connection finds it occupied: whenever a handler is in its       *)
(* stream handshake or in its channel loops and the lock is free, the      *)
(* slot is Some.                                                           *)
(***************************************************************************)
C21_SlotOccupied ==
    \A c \in Conns :
        (h[c].pc \in {"accept_bi", "handle_stream", "loops"} /\ lock = 0) =>
            active_connection = "Some"

(***************************************************************************)
(* C22. Lock discipline. The lock of active_connection is not held while   *)
(* an awaited I/O operation of a handler is pending: the wait for the next *)
(* stream, the read of a discriminator, a read or write of a channel loop. *)
(***************************************************************************)
C22_LockDiscipline ==
    \A c \in Conns :
        h[c].pc \in {"accept_bi", "handle_stream", "loops"} => lock # c

\* the position of the handler's loop that serves stream s
ChannelPc(hr, s) ==
    CASE s = hr.event_stream -> hr.ev_pc
      [] s = hr.state_commit_stream -> hr.sc_pc
      [] s = hr.action_stream -> hr.ac_pc
      [] OTHER -> "none"

(***************************************************************************)
(* C23. Strict request/response per channel. The server reads a request    *)
(* on a channel only when it owes no response there, and writes one        *)
(* response, of one word, only when it has read a request it has not       *)
(* answered.  The client writes a request on a channel only when every     *)
(* request it wrote there before has been answered and the response has    *)
(* been taken: no request word is waiting, the server owes no response     *)
(* and no response is waiting to be read.                                  *)
(***************************************************************************)
C23_ServerAlternates ==
    \A c \in Conns : \A s \in Streams :
        /\ ReadsWord(c, s) =>
              /\ ChannelPc(h[c], s) = "read"
              /\ h'[c].pc = "loops" => ChannelPc(h'[c], s) = "write"
        /\ Writes(c, s) =>
              /\ ChannelPc(h[c], s) = "write"
              /\ ChannelPc(h'[c], s) = "read"
              /\ Len(s2c'[c][s]) = Len(s2c[c][s]) + U32_BYTES

C23_ClientWaits ==
    \A s \in Streams :
        (/\ cl.pc = "ready" /\ cl'.pc \in ClientCalls
         /\ Len(c2s'[cl.conn][s]) > Len(c2s[cl.conn][s])) =>
            /\ Len(c2s[cl.conn][s]) < U32_BYTES
            /\ s2c[cl.conn][s] = <<>>
            /\ h[cl.conn].pc = "loops" => ChannelPc(h[cl.conn], s) = "read"

C23_StrictRequestResponse == [][C23_ServerAlternates /\ C23_ClientWaits]_vars

(***************************************************************************)
(* C24. Client stream establishment order. connect opens one new stream    *)
(* at a time and writes one discriminator byte on it: 1 (Event) on the     *)
(* first, 2 (StateCommit) on the second, 3 (Action) on the third.  It      *)
(* returns a ProtonConnection only when the three bytes are written; when  *)
(* the connection fails before that, it returns the error, opens no        *)
(* further stream and leaves the client without a connection.              *)
(***************************************************************************)
C24_Opened ==
    \A c \in Conns :
        kind[c] = "client" =>
            /\ nstreams[c] <= 3
            /\ \A s \in 1..nstreams[c] : sstate[c][s] = s
            /\ \A s \in (nstreams[c] + 1)..3 : sstate[c][s] = "unopened"
            /\ (cl.conn = c /\ cl.pc = "establish") => nstreams[c] < 3
            /\ (cl.conn = c /\ cl.pc \in {"new", "connecting"}) => nstreams[c] = 0

C24_OneAtATime ==
    /\ \A c \in Conns :
          (kind[c] = "client" /\ nstreams'[c] > nstreams[c]) =>
              LET s == nstreams[c] + 1 IN
              /\ cl.conn = c /\ cl.pc = "establish"
              /\ nstreams'[c] = s
              /\ c2s'[c] = [c2s[c] EXCEPT ![s] = <<s>>]
              /\ cl'.pc = IF s = 3 THEN "ready" ELSE "establish"
    /\ (cl.pc = "establish" /\ cl'.pc = "ready") =>
          /\ nstreams'[cl.conn] = 3 /\ cl'.ret = Ok /\ cl'.conn = cl.conn
    /\ (cl.pc = "establish" /\ cl'.pc = "idle") =>
          /\ cl'.conn = 0 /\ cl'.ret = ConnectionError
          /\ nstreams' = nstreams /\ c2s' = c2s

C24_EstablishOrder == [](C24_Opened) /\ [][C24_OneAtATime]_vars

\* connect has returned the ProtonConnection: three streams, named 1, 2, 3
C24_Witness ==
    /\ cl.pc = "ready" /\ cl.ret = Ok /\ cl.conn # 0
    /\ conn[cl.conn] = "open" /\ nstreams[cl.conn] = 3
    /\ sstate[cl.conn] = <<1, 2, 3>>
    /\ h[cl.conn].pc = "loops"

\* the positions of a connect call in progress
Connecting == {"connecting", "establish"}

(***************************************************************************)
(* C25. No client-side retry. A connect call makes one connection attempt: *)
(* the attempt is made when the call starts, and while the call is in      *)
(* progress the client makes no other; an attempt that is refused or a     *)
(* connection that fails ends the call with the error.  A send_event,      *)
(* send_state_commit or read_action call writes one request of one word    *)
(* when it starts and nothing while it waits, and it ends with a result,   *)
(* Ok or the error.                                                        *)
(***************************************************************************)
C25_OneAttempt ==
    /\ \A c \in Conns :
          (Attempted(c) /\ (kind'[c] = "client" \/ cl' # cl)) =>
              /\ cl.pc = "idle"
              /\ IF conn'[c] = "refused"
                 THEN cl'.pc = "idle" /\ cl'.conn = 0 /\ cl'.ret = ConnectionError
                 ELSE cl'.pc = "connecting" /\ cl'.conn = c
    /\ cl.pc \in Connecting =>
          /\ \A c \in Conns : Attempted(c) => kind'[c] # "client" /\ cl' = cl
          /\ cl'.pc \in Connecting \union {"ready", "idle"}
          /\ cl'.pc = "idle" => cl'.ret = ConnectionError /\ cl'.conn = 0
          /\ cl'.pc = "ready" => cl'.ret = Ok

C25_OneRequest ==
    /\ (cl.pc = "ready" /\ cl'.pc \in ClientCalls) =>
          /\ \E s \in Streams :
                /\ Len(c2s'[cl.conn][s]) = Len(c2s[cl.conn][s]) + U32_BYTES
                /\ \A r \in Streams \ {s} : c2s'[cl.conn][r] = c2s[cl.conn][r]
          /\ words'[cl.conn] = words[cl.conn] + 1
    /\ cl.pc \in ClientCalls =>
          /\ \A s \in Streams : Len(c2s'[cl.conn][s]) <= Len(c2s[cl.conn][s])
          /\ words'[cl.conn] <= words[cl.conn]
          /\ cl'.pc \in {cl.pc, "ready"}
          /\ cl'.pc = "ready" => cl'.ret \in {Ok, ConnectionError}

C25_NoRetry == [][C25_OneAttempt /\ C25_OneRequest]_vars

\* a connect was refused while another peer was served, and has returned the error
C25_Witness ==
    /\ cl.pc = "idle" /\ cl.conn = 0 /\ cl.ret = ConnectionError
    /\ \E c, d \in Conns :
          /\ c < d /\ kind[c] = "raw" /\ conn[c] = "open"
          /\ conn[d] = "refused"

\* the first n streams of c name n different roles
RolePrefix(c, n) ==
    /\ \A i \in 1..n : sstate[c][i] \in {STREAM_EVENT, STREAM_STATE_COMMIT, STREAM_ACTION}
    /\ \A i, j \in 1..n : i # j => sstate[c][i] # sstate[c][j]

(***************************************************************************)
(* C26. Handshake success characterisation. The channel loops start only   *)
(* when the first three streams named the three roles, each once, in any   *)
(* order; the handshake ends with InvalidStream only when the streams      *)
(* read so far do not.  So while the loops run every role is bound, to a   *)
(* stream of its own that named it, and no loop finds its stream missing.  *)
(***************************************************************************)
C26_AllBound ==
    \A c \in Conns :
        h[c].pc \in {"loops", "clear"} =>
            /\ h[c].streams_established = 3
            /\ {h[c].event_stream, h[c].state_commit_stream, h[c].action_stream}
                  = 1..3
            /\ conn[c] = "open" =>
                  /\ sstate[c][h[c].event_stream] = STREAM_EVENT
                  /\ sstate[c][h[c].state_commit_stream] = STREAM_STATE_COMMIT
                  /\ sstate[c][h[c].action_stream] = STREAM_ACTION

C26_SuccessIffPermutation ==
    \A c \in Conns :
        /\ (h[c].pc = "handle_stream" /\ h'[c].pc = "loops") =>
              h[c].cur = 3 /\ RolePrefix(c, 3)
        /\ (h[c].pc = "handle_stream" /\ h'[c].pc = "accept_bi") =>
              h[c].cur < 3 /\ RolePrefix(c, h[c].cur)
        /\ (h[c].pc = "handle_stream" /\ out'[c].result = InvalidStream) =>
              ~RolePrefix(c, h[c].cur)
        /\ h'[c].pc = "loops" => h[c].pc \in {"handle_stream", "loops"}

C26_HandshakeSuccess == [](C26_AllBound) /\ [][C26_SuccessIffPermutation]_vars

\* the roles were named in the order Action, Event, StateCommit
C26_Witness ==
    \E c \in Conns :
        /\ h[c].pc = "loops" /\ conn[c] = "open"
        /\ sstate[c] = <<STREAM_ACTION, STREAM_EVENT, STREAM_STATE_COMMIT>>
        /\ Bindings(h[c]) = <<2, 3, 1>>

(***************************************************************************)
(* C27. Rejection branch reachability. Whenever the lock is free the slot  *)
(* is None: a handler stores its ProtonStreamHandler and takes it out      *)
(* again before it drops the guard, and every failure arm writes None.     *)
(* So a handler that gets the lock always finds the slot empty and goes    *)
(* on to the handshake, and no connection is closed with the reason        *)
(* "Another client is already connected".                                  *)
(***************************************************************************)
C27_EmptyWhenFree ==
    /\ lock = 0 => active_connection = "None"
    /\ \A c \in Conns :
          out[c].close_reason # "Another client is already connected"

C27_TestNeverTrue ==
    \A c \in Conns :
        (h[c].pc = "lock" /\ h'[c].pc # "lock") =>
            /\ active_connection = "None"
            /\ h'[c].pc = "accept_bi" /\ lock' = c
            /\ conn'[c] = conn[c]

C27_RejectionUnreachable == [](C27_EmptyWhenFree) /\ [][C27_TestNeverTrue]_vars

\* a later handler has passed the test after the connection on which the client
\* sent an event has ended
C27_Witness ==
    \E c, d \in Conns :
        /\ c < d /\ h[c].pc = "joined" /\ conn[c] = "drained"
        /\ h[d].pc = "accept_bi" /\ lock = d /\ conn[d] = "open"
        /\ active_connection = "None"
        /\ cl.last_event_id > 0 /\ cl.conn = 0

\* the state of each of the three loops
EventFields(hr) == <<hr.last_event_id, hr.ev_pc, hr.event_id>>
CommitFields(hr) == <<hr.sc_pc, hr.commit_id, hr.response>>
ActionFields(hr) == <<hr.counter, hr.ac_pc, hr.action>>

\* this step of the handler of c reads from or writes on stream s
Touches(c, s) == ReadsWord(c, s) \/ Writes(c, s)

(***************************************************************************)
(* C28. Cross-channel independence. A step of one loop changes the state   *)
(* and the streams of its own channel only: last_event_id changes only by  *)
(* an Event read, the counter only by an Action write, and a response is   *)
(* computed from its own channel alone (the ack is the event id read, the  *)
(* commit response is commit_id + 2, the action is the count of actions    *)
(* written).  So the responses on a channel are those its requests get     *)
(* when issued alone, as far as they are written: the end of the session,  *)
(* which any channel can bring about, ends the responses on all three.     *)
(***************************************************************************)
C28_Frame ==
    \A c \in Conns :
        (h[c].pc = "loops" /\ h'[c].pc \in {"loops", "clear", "panicked"}) =>
            /\ EventFields(h'[c]) # EventFields(h[c]) =>
                  /\ Touches(c, h[c].event_stream)
                  /\ CommitFields(h'[c]) = CommitFields(h[c])
                  /\ ActionFields(h'[c]) = ActionFields(h[c])
            /\ CommitFields(h'[c]) # CommitFields(h[c]) =>
                  /\ Touches(c, h[c].state_commit_stream)
                  /\ EventFields(h'[c]) = EventFields(h[c])
                  /\ ActionFields(h'[c]) = ActionFields(h[c])
            /\ ActionFields(h'[c]) # ActionFields(h[c]) =>
                  /\ Touches(c, h[c].action_stream)
                  /\ EventFields(h'[c]) = EventFields(h[c])
                  /\ CommitFields(h'[c]) = CommitFields(h[c])
            /\ \A s \in Streams :
                  Touches(c, s) =>
                      \A r \in Streams \ {s} :
                          c2s'[c][r] = c2s[c][r] /\ s2c'[c][r] = s2c[c][r]

C28_OwnResponse ==
    \A c \in Conns :
        /\ Writes(c, h[c].event_stream) =>
              s2c'[c][h[c].event_stream] =
                  s2c[c][h[c].event_stream] \o to_le_bytes(h[c].event_id)
        /\ Writes(c, h[c].state_commit_stream) =>
              s2c'[c][h[c].state_commit_stream] =
                  s2c[c][h[c].state_commit_stream]
                      \o to_le_bytes((h[c].commit_id + 2) % U32_MOD)
        /\ Writes(c, h[c].action_stream) =>
              /\ h[c].action = h[c].counter
              /\ s2c'[c][h[c].action_stream] =
                    s2c[c][h[c].action_stream] \o to_le_bytes(h[c].counter)

C28_CrossChannelIndependence == [][C28_Frame /\ C28_OwnResponse]_vars

\* an Action request was answered 0 and then event 7 acknowledged with 7
C28_Witness ==
    \E c \in Conns :
        /\ h[c].pc = "loops" /\ conn[c] = "open" /\ kind[c] = "raw"
        /\ h[c].counter = 1 /\ h[c].last_event_id = 7
        /\ WordsOf(s2c[c][h[c].action_stream]) = <<0>>
        /\ WordsOf(s2c[c][h[c].event_stream]) = <<7>>

\* C28 as stated: the responses on each channel equal those its requests get when
\* issued alone, so a StateCommit or Action request, which alone is always
\* answered, is not left unanswered because of an Event request
C28_AnsweredAsAlone ==
    \A c \in Conns :
        (/\ h[c].pc = "clear" /\ conn[c] = "open"
         /\ h[c].stream_result = InvalidStream) =>
            /\ Len(c2s[c][h[c].state_commit_stream]) < U32_BYTES
            /\ Len(c2s[c][h[c].action_stream]) < U32_BYTES

C28_EqualWhenIssuedAlone ==
    [](C28_AnsweredAsAlone) /\ [][C28_Frame /\ C28_OwnResponse]_vars

\* the request words waiting in a stream buffer, behind the discriminator byte if
\* the server has not read it yet
Requests(buf) == WordsOf(IF Len(buf) % U32_BYTES = 1 THEN Tail(buf) ELSE buf)

(***************************************************************************)
(* C29. Client counter is not rolled back on failure. The counter never    *)
(* decreases: a send_event whose write fails has incremented it, and one   *)
(* whose read fails or expires leaves it at the id sent.  So the event     *)
(* ids waiting on a connection of the client are strictly increasing,      *)
(* greater than the id the server's session accepted last, and none is     *)
(* greater than the counter.                                               *)
(***************************************************************************)
C29_IdsIncrease ==
    \A c \in Conns :
        kind[c] = "client" =>
            LET ids == Requests(c2s[c][STREAM_EVENT]) IN
            /\ StrictlyIncreasing(ids)
            /\ \A i \in 1..Len(ids) :
                  /\ ids[i] <= cl.last_event_id
                  /\ ids[i] > h[c].last_event_id
            /\ h[c].last_event_id <= cl.last_event_id

C29_KeptOnFailure ==
    /\ cl'.last_event_id >= cl.last_event_id
    /\ (cl.pc = "send_event" /\ cl'.pc = "ready") =>
          cl'.last_event_id = cl.last_event_id
    /\ (cl.pc = "ready" /\ cl'.pc = "ready" /\ cl'.last_event_id # cl.last_event_id) =>
          /\ cl'.ret = ConnectionError
          /\ cl'.last_event_id = cl.last_event_id + 1
          /\ c2s' = c2s

C29_NoRollback == [](C29_IdsIncrease) /\ [][C29_KeptOnFailure]_vars

\* the wait for the acknowledgment of id 1 has expired; the next send_event on
\* the same connection sent 2
C29_Witness ==
    /\ cl.pc = "send_event" /\ cl.arg = 2 /\ cl.conn # 0
    /\ conn[cl.conn] = "open" /\ words[cl.conn] = 2
    /\ Requests(c2s[cl.conn][STREAM_EVENT]) = <<1, 2>>

(***************************************************************************)
(* C30. Reconnect compatibility. The server never rejects an event id of   *)
(* a ProtonClient: every id it reads on the Event stream of a client's     *)
(* connection is greater than the session's last_event_id and is           *)
(* accepted, on the client's first connection and on a later one, where    *)
(* the session starts from 0 and the client goes on from its counter; no   *)
(* session of a client ends with InvalidStream.                            *)
(***************************************************************************)
C30_Accepted ==
    \A c \in Conns :
        kind[c] = "client" =>
            /\ ReadsWord(c, h[c].event_stream) =>
                  LET event_id == HeadWord(c2s[c][h[c].event_stream]) IN
                  /\ event_id > h[c].last_event_id
                  /\ h'[c].pc = "loops" /\ h'[c].last_event_id = event_id
            /\ h'[c].stream_result # InvalidStream
            /\ out'[c].result # InvalidStream

C30_NeverRejected ==
    \A c \in Conns :
        kind[c] = "client" =>
            h[c].stream_result # InvalidStream /\ out[c].result # InvalidStream

C30_ReconnectCompatible == [](C30_NeverRejected) /\ [][C30_Accepted]_vars

\* the session of the client's second connection, started from 0, has accepted
\* the client's id 2
C30_Witness ==
    /\ cl.conn = 2 /\ kind[2] = "client" /\ cl.last_event_id = 2
    /\ h[1].pc = "joined"
    /\ h[2].pc = "loops" /\ h[2].last_event_id = 2

(***************************************************************************)
(* C31. Handler result versus session outcome. A handler that started its  *)
(* channel loops returns Ok to run(), whatever the outcome of the loops    *)
(* was: Ok, Timeout, InvalidStream or ConnectionError shows in the close   *)
(* code only.  A handler returns an error only when it never started the   *)
(* loops: from the transport handshake, the slot test or the stream        *)
(* handshake.                                                              *)
(***************************************************************************)
C31_ResultOfReturned ==
    \A c \in Conns :
        h[c].pc = "returned" =>
            /\ out[c].loops_started <=> out[c].result = Ok
            /\ out[c].loops_started =>
                  /\ h[c].stream_result \in {Ok, Timeout, InvalidStream, ConnectionError}
                  /\ out[c].close_code = close_for(h[c].stream_result)[1]
            /\ ~out[c].loops_started =>
                  /\ out[c].result \in {ConnectionError, InvalidStream}
                  /\ h[c].stream_result = "None"

C31_WhereReturned ==
    \A c \in Conns :
        (h[c].pc # "returned" /\ h'[c].pc = "returned") =>
            IF h[c].pc = "clear"
            THEN out'[c].result = Ok /\ out[c].loops_started
            ELSE /\ h[c].pc \in {"connecting", "lock", "accept_bi", "handle_stream"}
                 /\ out'[c].result # Ok
                 /\ ~out'[c].loops_started

C31_HandlerResult == [](C31_ResultOfReturned) /\ [][C31_WhereReturned]_vars

\* the Event loop ended the session with InvalidStream; the handler returned Ok
\* and closed with code 5
C31_Witness ==
    \E c \in Conns :
        /\ h[c].pc = "returned" /\ out[c].loops_started
        /\ h[c].stream_result = InvalidStream
        /\ out[c].result = Ok /\ out[c].close_code = 5
        /\ run_pc = "await" /\ run_task = c

====
